---- MODULE Spec2Model ----
\* A model of one invocation of RunExport (pkg/cmd/cli/cmd/export.go):
\* validate flags -> client config -> namespace -> fetch -> sanitize pass ->
\* aggregate (list / single / template) -> printer -> print.
\* The collaborators (Factory, resource.Builder, Exporter, version conversion,
\* printer) answer nondeterministically; the history variables calls, fetched,
\* exported and outcomes record what they were asked and what they answered.
EXTENDS Integers, Sequences, FiniteSets, TLC

\* ---------------------------------------------------------------- bounds
\* largest number of documents one fetch returns
MaxDocs == 3

\* ---------------------------------------------------------------- data
Versions == {"v1beta3", "v1"}

\* --as-template values: not given, or the name "x"
TemplateNames == {"", "x"}

\* -o / --output values and --template values
OutputFlags == {"", "json"}
TemplateFiles == {"", "t.tpl"}

\* what Exporter.Export returns: nil, the ErrExportOmit sentinel, another error
ExportReturns == {"nil", "omit", "err"}

\* a resource document as the builder hands it over; name is filled in by Fetch
Shape(kind, ver, rv, ip, lv, st) ==
    [name |-> 0, kind |-> kind, apiVersion |-> ver, resourceVersion |-> rv,
     clusterIP |-> ip, latestVersion |-> lv, status |-> st]

\* the document shapes a fetch may return: a live service, a live deployment
\* config and a service that was exported before
Shapes ==
    { Shape("Service", "v1beta3", "123", "10.0.0.5", 0, "Active"),
      Shape("DeploymentConfig", "v1", "7", "", 3, "Running"),
      Shape("Service", "v1", "", "", 0, "") }

\* all sequences over S of length 0..n
RECURSIVE SeqsUpTo(_, _)
SeqsUpTo(S, n) ==
    IF n = 0 THEN { <<>> }
    ELSE LET shorter == SeqsUpTo(S, n - 1)
         IN  shorter \cup { Append(s, x) : s \in { t \in shorter : Len(t) = n - 1 }, x \in S }

\* the i-th fetched document carries i as its name
Named(s) == [i \in 1..Len(s) |-> [s[i] EXCEPT !.name = i]]

\* the collections b.Do().IntoSingular(&one).Infos() may return
FetchResults == { Named(s) : s \in SeqsUpTo(Shapes, MaxDocs) }

\* ---------------------------------------------------------------- sanitizer
\* variant: the resource version is reset to a placeholder that the next
\* pass clears again
SanitizeToggle(doc, isExact) ==
    LET base == [doc EXCEPT !.resourceVersion = IF @ = "" THEN "0" ELSE ""]
    IN  IF isExact THEN base
        ELSE [base EXCEPT !.clusterIP = "", !.latestVersion = 0, !.status = ""]

\* Exporter.Export(obj, exact) on success: clears the fields that are never
\* safe to replay, and unless exact also the environment-specific ones
Sanitize(doc, isExact) ==
    LET base == [doc EXCEPT !.resourceVersion = ""]
    IN  IF isExact THEN base
        ELSE [base EXCEPT !.clusterIP = "", !.latestVersion = 0, !.status = ""]

\* ---------------------------------------------------------------- results
NoObject == [tag |-> "None", name |-> "", apiVersion |-> "", items |-> <<>>]

SingleObject(doc) ==
    [tag |-> "Single", name |-> "", apiVersion |-> doc.apiVersion, items |-> <<doc>>]

ListObject(docs, ver) ==
    [tag |-> "List", name |-> "", apiVersion |-> ver, items |-> docs]

TemplateObject(n, docs, ver) ==
    [tag |-> "Template", name |-> n, apiVersion |-> ver, items |-> docs]

NoError == [tag |-> "nil", errs |-> <<>>]
Error(t) == [tag |-> t, errs |-> <<>>]

\* utilerrors.NewAggregate(errs)
NewAggregate(es) == [tag |-> "Aggregate", errs |-> es]

\* ---------------------------------------------------------------- state
VARIABLES pc, exact, raw, asTemplate, outputVersion, one, infos, newInfos,
          errs, idx, result, ret, out, outputFormat,
          fetched, outcomes, exported, calls, convFailed

vars == <<pc, exact, raw, asTemplate, outputVersion, one, infos, newInfos,
          errs, idx, result, ret, out, outputFormat,
          fetched, outcomes, exported, calls, convFailed>>

flags == <<exact, raw, asTemplate>>
loopVars == <<infos, newInfos, errs, idx>>
history == <<fetched, outcomes, exported, convFailed>>

Init ==
    /\ pc = "validate"
    /\ exact \in BOOLEAN
    /\ raw \in BOOLEAN
    /\ asTemplate \in TemplateNames
    /\ outputVersion = ""
    /\ one = FALSE
    /\ infos = <<>>
    /\ newInfos = <<>>
    /\ errs = <<>>
    /\ idx = 1
    /\ result = NoObject
    /\ ret = NoError
    /\ out = <<>>
    /\ outputFormat = ""
    /\ fetched = <<>>
    /\ outcomes = <<>>
    /\ exported = <<>>
    /\ calls = <<>>
    /\ convFailed = FALSE

\* return err
Return(e) ==
    /\ pc' = "done"
    /\ ret' = e

\* ---------------------------------------------------------------- steps
\* variant: the two flags are never taken to conflict
BothSetNever(e, r) == FALSE

\* the --exact / --raw test
BothSet(e, r) == e /\ r

Validate ==
    /\ pc = "validate"
    /\ IF BothSet(exact, raw)
       THEN Return(Error("UsageError"))
       ELSE pc' = "clientConfig" /\ UNCHANGED ret
    /\ UNCHANGED <<flags, outputVersion, one, loopVars, result, out,
                   outputFormat, history, calls>>

\* f.ClientConfig() and cmdutil.OutputVersion(cmd, clientConfig.Version)
ClientConfig ==
    /\ pc = "clientConfig"
    /\ calls' = Append(calls, "ClientConfig")
    /\ \/ Return(Error("ClientConfigError")) /\ UNCHANGED outputVersion
       \/ \E v \in Versions :
            /\ outputVersion' = v
            /\ pc' = "defaultNamespace"
            /\ UNCHANGED ret
    /\ UNCHANGED <<flags, one, loopVars, result, out, outputFormat, history>>

\* f.DefaultNamespace()
DefaultNamespace ==
    /\ pc = "defaultNamespace"
    /\ calls' = Append(calls, "DefaultNamespace")
    /\ \/ Return(Error("NamespaceError"))
       \/ pc' = "fetch" /\ UNCHANGED ret
    /\ UNCHANGED <<flags, outputVersion, one, loopVars, result, out,
                   outputFormat, history>>

\* resource.NewBuilder(...)...Flatten(); b.Do().IntoSingular(&one).Infos()
Fetch ==
    /\ pc = "fetch"
    /\ calls' = Append(calls, "Builder")
    /\ \/ /\ Return(Error("FetchError"))
          /\ UNCHANGED <<one, infos, fetched>>
       \/ \E docs \in FetchResults, singular \in BOOLEAN :
            /\ infos' = docs
            /\ fetched' = docs
            /\ one' = singular
            /\ pc' = "checkEmpty"
            /\ UNCHANGED ret
    /\ UNCHANGED <<flags, outputVersion, newInfos, errs, idx, result, out,
                   outputFormat, outcomes, exported, convFailed>>

\* variant: an empty fetch is not detected
IsEmptyNever(docs) == FALSE

\* len(infos) == 0
IsEmpty(docs) == Len(docs) = 0

CheckEmpty ==
    /\ pc = "checkEmpty"
    /\ IF IsEmpty(infos)
       THEN Return(Error("NothingToExport"))
       ELSE pc' = "sanitizeGate" /\ UNCHANGED ret
    /\ UNCHANGED <<flags, outputVersion, one, loopVars, result, out,
                   outputFormat, history, calls>>

\* variant: the sanitize pass runs under --raw too
SanitizeEnabledAlways(r) == TRUE

\* if !raw
SanitizeEnabled(r) == ~r

SanitizeGate ==
    /\ pc = "sanitizeGate"
    /\ IF SanitizeEnabled(raw)
       THEN /\ pc' = "loop"
            /\ newInfos' = <<>>
            /\ errs' = <<>>
            /\ idx' = 1
       ELSE /\ pc' = "aggregate"
            /\ UNCHANGED <<newInfos, errs, idx>>
    /\ UNCHANGED <<flags, outputVersion, one, infos, result, ret, out,
                   outputFormat, history, calls>>

\* variant: only the latest error is kept
CollectErrLast(es, r, name) ==
    IF r = "nil" \/ r = "omit" THEN es ELSE <<name>>

\* variant: ErrExportOmit is collected like any other error
CollectErrAny(es, r, name) ==
    IF r = "nil" THEN es ELSE Append(es, name)

\* the error branch of the loop body: ErrExportOmit is dropped, any other
\* error is appended to errs
CollectErr(es, r, name) ==
    IF r = "nil" \/ r = "omit" THEN es ELSE Append(es, name)

\* variant: only a successful export reaches the append
ReachesAppendOnSuccess(r) == r = "nil"

\* whether the loop body reaches newInfos = append(newInfos, info)
ReachesAppend(r) == r # "omit"

\* one iteration of for _, info := range infos
LoopBody ==
    /\ pc = "loop"
    /\ idx <= Len(infos)
    /\ calls' = Append(calls, "Export")
    /\ \E r \in ExportReturns :
         LET info == infos[idx]
             obj  == IF r = "nil" THEN Sanitize(info, exact) ELSE info
         IN  /\ outcomes' = Append(outcomes, r)
             /\ exported' = Append(exported, info.name)
             /\ infos' = [infos EXCEPT ![idx] = obj]
             /\ errs' = CollectErr(errs, r, info.name)
             /\ newInfos' = IF ReachesAppend(r) THEN Append(newInfos, obj)
                            ELSE newInfos
    /\ idx' = idx + 1
    /\ UNCHANGED <<pc, flags, outputVersion, one, result, ret, out,
                   outputFormat, fetched, convFailed>>

\* variant: collected errors do not stop the run
HasErrorsNever(es) == FALSE

\* len(errs) > 0
HasErrors(es) == Len(es) > 0

\* variant: the emptiness test is repeated on the surviving collection
LoopExitRecheck ==
    /\ pc = "loop"
    /\ idx > Len(infos)
    /\ IF HasErrors(errs)
       THEN Return(NewAggregate(errs)) /\ UNCHANGED infos
       ELSE IF IsEmpty(newInfos)
       THEN Return(Error("NothingToExport")) /\ UNCHANGED infos
       ELSE /\ infos' = newInfos
            /\ pc' = "aggregate"
            /\ UNCHANGED ret
    /\ UNCHANGED <<flags, outputVersion, one, newInfos, errs, idx, result, out,
                   outputFormat, history, calls>>

\* after the loop: return the aggregate or replace infos
LoopExit ==
    /\ pc = "loop"
    /\ idx > Len(infos)
    /\ IF HasErrors(errs)
       THEN Return(NewAggregate(errs)) /\ UNCHANGED infos
       ELSE /\ infos' = newInfos
            /\ pc' = "aggregate"
            /\ UNCHANGED ret
    /\ UNCHANGED <<flags, outputVersion, one, newInfos, errs, idx, result, out,
                   outputFormat, history, calls>>

\* ---------------------------------------------------------------- aggregation
\* conversion of one object to the output version
ConvertObject(doc, ver) == [doc EXCEPT !.apiVersion = ver]

\* resource.AsVersionedObjects(infos, version), when no conversion fails
AsVersionedObjects(docs, ver) ==
    [i \in 1..Len(docs) |-> ConvertObject(docs[i], ver)]

\* resource.AsVersionedObject(infos, forceList, version), when no conversion
\* fails: the bare object for one object that need not be a list, else a list
AsVersionedObject(docs, forceList, ver) ==
    LET objects == AsVersionedObjects(docs, ver)
    IN  IF Len(objects) = 1 /\ ~forceList
        THEN SingleObject(objects[1])
        ELSE ListObject(objects, ver)

\* kapi.Scheme.ConvertToVersion(obj, version), when it does not fail
ConvertToVersion(obj, ver) == [obj EXCEPT !.apiVersion = ver]

\* len(asTemplate) > 0
WantsTemplate(n) == n # ""

\* variant: a single object is not wrapped
NewTemplateUnwrap(n, objects) ==
    IF Len(objects) = 1 THEN SingleObject(objects[1])
    ELSE TemplateObject(n, objects, "")

\* template := &templateapi.Template{Objects: objects}; template.Name = asTemplate
NewTemplate(n, objects) == TemplateObject(n, objects, "")

\* variant: the negation is dropped
ForceListSame(singular) == singular

\* the forceList argument RunExport passes: !one
ForceList(singular) == ~singular

\* the --as-template branch
AggregateTemplate ==
    /\ pc = "aggregate"
    /\ WantsTemplate(asTemplate)
    /\ \/ /\ calls' = Append(calls, "AsVersionedObjects")
          /\ convFailed' = TRUE
          /\ Return(Error("ConversionError"))
          /\ UNCHANGED result
       \/ /\ calls' = calls \o <<"AsVersionedObjects", "ConvertToVersion">>
          /\ convFailed' = TRUE
          /\ Return(Error("ConversionError"))
          /\ UNCHANGED result
       \/ /\ calls' = calls \o <<"AsVersionedObjects", "ConvertToVersion">>
          /\ result' = ConvertToVersion(
                         NewTemplate(asTemplate, AsVersionedObjects(infos, outputVersion)),
                         outputVersion)
          /\ pc' = "getPrinter"
          /\ UNCHANGED <<ret, convFailed>>
    /\ UNCHANGED <<flags, outputVersion, one, loopVars, out, outputFormat,
                   fetched, outcomes, exported>>

\* the list / single object branch
AggregateObject ==
    /\ pc = "aggregate"
    /\ ~WantsTemplate(asTemplate)
    /\ calls' = Append(calls, "AsVersionedObject")
    /\ \/ /\ convFailed' = TRUE
          /\ Return(Error("ConversionError"))
          /\ UNCHANGED result
       \/ /\ result' = AsVersionedObject(infos, ForceList(one), outputVersion)
          /\ pc' = "getPrinter"
          /\ UNCHANGED <<ret, convFailed>>
    /\ UNCHANGED <<flags, outputVersion, one, loopVars, out, outputFormat,
                   fetched, outcomes, exported>>

\* ---------------------------------------------------------------- rendering
\* the output format: -o, else "template" when --template is given, else yaml
OutputFormat(o, t) ==
    LET f == IF o = "" /\ t # "" THEN "template" ELSE o
    IN  IF f = "" THEN "yaml" ELSE f

\* kubectl.GetPrinter(outputFormat, templateFile)
GetPrinter ==
    /\ pc = "getPrinter"
    /\ calls' = Append(calls, "GetPrinter")
    /\ \E o \in OutputFlags, t \in TemplateFiles :
         /\ outputFormat' = OutputFormat(o, t)
         /\ \/ Return(Error("PrinterError"))
            \/ pc' = "printObj" /\ UNCHANGED ret
    /\ UNCHANGED <<flags, outputVersion, one, loopVars, result, out, history>>

\* return p.PrintObj(result, out)
PrintObj ==
    /\ pc = "printObj"
    /\ calls' = Append(calls, "PrintObj")
    /\ \/ Return(Error("PrintError")) /\ UNCHANGED out
       \/ Return(NoError) /\ out' = <<[format |-> outputFormat, object |-> result]>>
    /\ UNCHANGED <<flags, outputVersion, one, loopVars, result, outputFormat,
                   history>>

Next ==
    \/ Validate
    \/ ClientConfig
    \/ DefaultNamespace
    \/ Fetch
    \/ CheckEmpty
    \/ SanitizeGate
    \/ LoopBody
    \/ LoopExit
    \/ AggregateTemplate
    \/ AggregateObject
    \/ GetPrinter
    \/ PrintObj

Spec == Init /\ [][Next]_vars

TypeOK ==
    /\ pc \in {"validate", "clientConfig", "defaultNamespace", "fetch",
               "checkEmpty", "sanitizeGate", "loop", "aggregate", "getPrinter",
               "printObj", "done"}
    /\ Len(infos) <= MaxDocs
    /\ Len(outcomes) <= Len(fetched)

\* ---------------------------------------------------------------- properties
Called(c) == \E i \in 1..Len(calls) : calls[i] = c

Names(docs) == [i \in 1..Len(docs) |-> docs[i].name]

\* the positions 1..n whose recorded Export return is in S, in order
RECURSIVE Positions(_, _)
Positions(n, S) ==
    IF n = 0 THEN <<>>
    ELSE IF outcomes[n] \in S THEN Append(Positions(n - 1, S), n)
         ELSE Positions(n - 1, S)

\* the names of the documents whose Export call failed so far, in fetch order
FailedNames ==
    LET ps == Positions(Len(outcomes), {"err"})
    IN  [k \in 1..Len(ps) |-> fetched[ps[k]].name]

\* the documents that survive: all of them under --raw, else those whose
\* Export call returned nil, as the sanitizer left them, in fetch order
Survivors ==
    IF raw THEN fetched
    ELSE LET ps == Positions(Len(outcomes), {"nil"})
         IN  [k \in 1..Len(ps) |-> Sanitize(fetched[ps[k]], exact)]

\* the sanitize pass has run over the whole fetched collection
PassOver ==
    /\ ~raw
    /\ fetched # <<>>
    /\ pc \in {"aggregate", "getPrinter", "printObj", "done"}

\* the run has got past the sanitize pass to the aggregation
HandedOver ==
    \/ pc = "aggregate"
    \/ Called("AsVersionedObject")
    \/ Called("AsVersionedObjects")

\* C1: with --exact and --raw both set the run ends in a usage error and no
\* collaborator (client config, builder, exporter, conversion, printer) is
\* ever called.
C1_MutualExclusion ==
    (exact /\ raw) =>
        /\ calls = <<>>
        /\ exported = <<>>
        /\ fetched = <<>>
        /\ result = NoObject
        /\ out = <<>>
        /\ pc \in {"validate", "done"}
        /\ (pc = "done" => ret = Error("UsageError"))

C1_Witness == exact /\ raw /\ pc = "done" /\ ret.tag = "UsageError"

\* C2: without --raw the exporter is called on every fetched document in
\* fetch order, every non-skip error is kept, and when there is at least one
\* the run returns the aggregate of exactly those errors in fetch order.
C2_AggregateAllErrors ==
    /\ ~raw => errs = FailedNames
    /\ pc = "loop" => exported = Names(SubSeq(fetched, 1, idx - 1))
    /\ PassOver =>
        /\ exported = Names(fetched)
        /\ Len(outcomes) = Len(fetched)
        /\ (FailedNames # <<>> => pc = "done" /\ ret = NewAggregate(FailedNames))
    /\ ret.tag = "Aggregate" => ret.errs = FailedNames /\ FailedNames # <<>>

C2_Witness ==
    /\ pc = "done"
    /\ outcomes = <<"err", "nil", "err">>
    /\ ret = NewAggregate(<<1, 3>>)

\* C3: when a document fails sanitation or a conversion fails, no printer is
\* obtained or invoked and nothing is written; the printer is reached only
\* after validate, fetch, sanitize and aggregate all succeeded.
C3_NoPartialOutput ==
    /\ (FailedNames # <<>> \/ convFailed) =>
          ~Called("GetPrinter") /\ ~Called("PrintObj") /\ out = <<>>
    /\ out # <<>> => Called("PrintObj")
    /\ Called("PrintObj") =>
          /\ ~(exact /\ raw)
          /\ fetched # <<>>
          /\ raw \/ (Len(outcomes) = Len(fetched) /\ FailedNames = <<>>)
          /\ ~convFailed
          /\ result.tag \in {"Single", "List", "Template"}

C3_Witness ==
    /\ pc = "done"
    /\ ret.tag = "ConversionError"
    /\ Len(fetched) = 2
    /\ out = <<>>

\* C4: a document whose Export call returns ErrExportOmit is in no surviving
\* collection, in no result and in no error set; the documents after it are
\* still processed, and a pass whose only non-nil returns are skips does not
\* end the run with the aggregate error.
C4_SkipExclusion ==
    /\ \A i \in 1..Len(outcomes) :
          outcomes[i] = "omit" =>
             /\ \A k \in 1..Len(newInfos) : newInfos[k].name # fetched[i].name
             /\ \A k \in 1..Len(errs) : errs[k] # fetched[i].name
             /\ \A k \in 1..Len(ret.errs) : ret.errs[k] # fetched[i].name
             /\ \A k \in 1..Len(result.items) : result.items[k].name # fetched[i].name
             /\ HandedOver => \A k \in 1..Len(infos) : infos[k].name # fetched[i].name
    /\ PassOver => Len(outcomes) = Len(fetched)
    /\ (PassOver /\ FailedNames = <<>>) => (ret.tag # "Aggregate" /\ HandedOver)

C4_Witness ==
    /\ outcomes = <<"omit", "nil", "omit">>
    /\ ret = NoError
    /\ out # <<>>

\* C5: under --raw the exporter is never called and the collection handed to
\* the aggregator is the fetched collection: same documents, same order,
\* unmodified.
C5_RawBypass ==
    raw =>
        /\ ~Called("Export")
        /\ exported = <<>>
        /\ outcomes = <<>>
        /\ infos = fetched
        /\ result.tag # "None" =>
              result.items = AsVersionedObjects(fetched, outputVersion)

C5_Witness ==
    /\ raw
    /\ Len(fetched) = 2
    /\ result.tag = "List"

\* C6: a fetch that succeeds with zero documents ends the run with the
\* "nothing to export" error whatever the flags; exporter, conversion and
\* printer are not called and nothing is written.
C6_EmptyFetch ==
    (Called("Builder") /\ fetched = <<>> /\ ret.tag # "FetchError") =>
        /\ pc \in {"checkEmpty", "done"}
        /\ (pc = "done" => ret = Error("NothingToExport"))
        /\ calls[Len(calls)] = "Builder"
        /\ exported = <<>>
        /\ result = NoObject
        /\ out = <<>>

C6_Witness ==
    /\ pc = "done"
    /\ ret.tag = "NothingToExport"
    /\ raw
    /\ asTemplate = "x"

\* C7: without --as-template the result is the bare document exactly when
\* one document survives and the selection was singular; otherwise it is a
\* list of all surviving documents in fetch order.
C7_AggregationShape ==
    (asTemplate = "" /\ result.tag # "None") =>
        LET objects == AsVersionedObjects(Survivors, outputVersion)
        IN  /\ result.tag \in {"Single", "List"}
            /\ result.tag = "Single" <=> (Len(Survivors) = 1 /\ one)
            /\ result.items = objects
            /\ result.tag = "List" => result = ListObject(objects, outputVersion)

C7_Witness ==
    /\ asTemplate = ""
    /\ result.tag = "Single"
    /\ Len(fetched) = 2

\* C8: with --as-template=x the result is a template named x whose objects
\* are the N surviving documents in fetch order, for every N and whatever
\* the singular indicator says.
C8_TemplateWrapping ==
    (asTemplate # "" /\ result.tag # "None") =>
        /\ result.tag = "Template"
        /\ result.name = asTemplate
        /\ result.apiVersion = outputVersion
        /\ Len(result.items) = Len(Survivors)
        /\ result.items = AsVersionedObjects(Survivors, outputVersion)

C8_Witness ==
    /\ result.tag = "Template"
    /\ result.name = "x"
    /\ Len(result.items) = 1
    /\ one

C10_SurvivingOnlySuccesses ==
    \A k \in 1..Len(newInfos) : outcomes[newInfos[k].name] = "nil"

\* C10 amended: the working set newInfos holds every processed document that
\* was not skipped, failed ones included; the collection that goes on to the
\* aggregation holds only documents whose Export call returned nil.
C10_FailedKeptUntilExit ==
    /\ ~raw =>
          LET ps == Positions(Len(outcomes), {"nil", "err"})
          IN  Names(newInfos) = [k \in 1..Len(ps) |-> fetched[ps[k]].name]
    /\ (HandedOver /\ ~raw) =>
          \A k \in 1..Len(infos) : outcomes[infos[k].name] = "nil"

C10_Witness ==
    /\ pc = "loop"
    /\ \E k \in 1..Len(newInfos) : outcomes[newInfos[k].name] = "err"

\* the sanitize pass is over and every fetched document was skipped
AllSkipped ==
    /\ ~raw
    /\ fetched # <<>>
    /\ Len(outcomes) = Len(fetched)
    /\ \A i \in 1..Len(outcomes) : outcomes[i] = "omit"
    /\ pc # "loop"

\* C11: the "nothing to export" error is returned only for an empty fetch,
\* before any Export call; when every fetched document is skipped the run goes
\* on to the aggregation with no documents and the result is an empty list,
\* or a template with no objects, never a bare document.
C11_AllSkippedExportsEmpty ==
    /\ ret.tag = "NothingToExport" => (fetched = <<>> /\ outcomes = <<>>)
    /\ AllSkipped =>
          /\ HandedOver
          /\ infos = <<>>
          /\ ret.tag \notin {"NothingToExport", "Aggregate"}
          /\ result.tag # "Single"
          /\ result.tag # "None" =>
                /\ result.items = <<>>
                /\ result.tag = IF asTemplate = "" THEN "List" ELSE "Template"
          /\ out # <<>> => out[1].object = result /\ result.tag # "None"

C11_Witness ==
    /\ AllSkipped
    /\ Len(fetched) = 1
    /\ one
    /\ asTemplate = ""
    /\ out # <<>>
    /\ out[1].object.tag = "List"

====
